---- MODULE Spec2Model ----
(***************************************************************************)
(* Model of the news summary pipeline (src/news_pipeline.py) and of the    *)
(* AP News fetcher (src/crawl_apnews.py).                                  *)
(*                                                                         *)
(* Four specifications share one set of variables:                         *)
(*   SpecDedup  deduplicate_news applied to bounded article lists          *)
(*   SpecParse  SummaryParser.parse applied to bounded token texts         *)
(*   Spec       one run of NewsSummaryPipeline.run_pipeline                *)
(*   SpecCrawl  one call of get_ap_news_with_content                       *)
(***************************************************************************)
EXTENDS Integers, Sequences, FiniteSets, TLC

VARIABLES
    \* deduplicate_news: argument, result, result of a second application
    news_list, unique_news, unique_again, dd_pc,
    \* SummaryParser.parse: argument, outcome
    text, parsed, sp_pc,
    \* run_pipeline: position, locals, model calls, printed reports,
    \* stages entered so far, the output file, the propagated exception
    pc, news_data, unique, llm_calls, llm_failed, processed_data,
    html_content, reports, stages, output_file, exception,
    \* get_ap_news_with_content: position, arguments, environment, locals
    ap_pc, max_articles, cards, ap_news, ap_i, detailed,
    ap_result, ap_exception, driver_quit

dd_vars == <<news_list, unique_news, unique_again, dd_pc>>
sp_vars == <<text, parsed, sp_pc>>
pl_vars == <<pc, news_data, unique, llm_calls, llm_failed, processed_data,
             html_content, reports, stages, output_file, exception>>
ap_vars == <<ap_pc, max_articles, cards, ap_news, ap_i, detailed,
             ap_result, ap_exception, driver_quit>>
vars == <<dd_vars, sp_vars, pl_vars, ap_vars>>

Range(s) == {s[i] : i \in 1..Len(s)}

Min(a, b) == IF a <= b THEN a ELSE b

\* Python slice s[:n]
Prefix(s, n) == SubSeq(s, 1, Min(Len(s), n))

\* All sequences over S of length at most n
SeqUpTo(S, n) == UNION {[1..k -> S] : k \in 0..n}

(***************************************************************************)
(* Bounds                                                                  *)
(***************************************************************************)
MaxNews == 3
MaxFetched == 2
MaxCards == 2

(***************************************************************************)
(* Deduplicator                                                            *)
(***************************************************************************)
\* news['title'][:50]
TitleKeyLen == 50

title_key(news) == Prefix(news.title, TitleKeyLen)

\* Titles are sequences of characters.  Pad(n) is n times the character "a".
Pad(n) == [i \in 1..n |-> "a"]

\* Titles around the 50 character boundary: the empty title, a title of
\* exactly 50 characters, two longer ones that agree with it on the first
\* 50, one of 50 characters that differs at the 50th, and one extending it.
Titles ==
    { <<>>,
      Pad(TitleKeyLen),
      Pad(TitleKeyLen) \o <<"b">>,
      Pad(TitleKeyLen - 1) \o <<"b">>,
      Pad(TitleKeyLen - 1) \o <<"b", "c">> }

Urls == {"u1", "u2"}

Articles == [title : Titles, url : Urls]

\* One iteration of the loop body of deduplicate_news, on the loop state
\* [unique_news, seen_titles].
dedup_step_keep_all(st, news) ==
    [unique_news |-> Append(st.unique_news, news),
     seen_titles |-> st.seen_titles]

dedup_step_forget(st, news) ==
    IF title_key(news) \notin st.seen_titles
    THEN [unique_news |-> Append(st.unique_news, news),
          seen_titles |-> st.seen_titles \cup {title_key(news)}]
    ELSE [unique_news |-> st.unique_news,
          seen_titles |-> st.seen_titles \ {title_key(news)}]

dedup_step(st, news) ==
    IF title_key(news) \notin st.seen_titles
    THEN [unique_news |-> Append(st.unique_news, news),
          seen_titles |-> st.seen_titles \cup {title_key(news)}]
    ELSE st

RECURSIVE dedup_loop(_, _)
dedup_loop(st, rest) ==
    IF rest = <<>> THEN st
    ELSE dedup_loop(dedup_step(st, Head(rest)), Tail(rest))

deduplicate_news(l) ==
    dedup_loop([unique_news |-> <<>>, seen_titles |-> {}], l).unique_news

DedupIdle ==
    /\ news_list = <<>>
    /\ unique_news = <<>>
    /\ unique_again = <<>>
    /\ dd_pc = "idle"

InitDedup_dd ==
    /\ news_list \in SeqUpTo(Articles, MaxNews)
    /\ unique_news = <<>>
    /\ unique_again = <<>>
    /\ dd_pc = "start"

Dedupe ==
    /\ dd_pc = "start"
    /\ unique_news' = deduplicate_news(news_list)
    /\ dd_pc' = "deduped"
    /\ UNCHANGED <<news_list, unique_again>>
    /\ UNCHANGED <<sp_vars, pl_vars, ap_vars>>

DedupeAgain ==
    /\ dd_pc = "deduped"
    /\ unique_again' = deduplicate_news(unique_news)
    /\ dd_pc' = "again"
    /\ UNCHANGED <<news_list, unique_news>>
    /\ UNCHANGED <<sp_vars, pl_vars, ap_vars>>

NextDedup == Dedupe \/ DedupeAgain

(***************************************************************************)
(* Structured output validator: SummaryParser.parse                        *)
(*                                                                         *)
(* A text is a sequence of lexical tokens [type, text]; the text of a      *)
(* token is a sequence of words (a string literal of several words is one  *)
(* token).  A Python value is a record [kind, text, members, items] where  *)
(* kind is the Python type json.loads produces.                            *)
(***************************************************************************)
Tok(type, ws) == [type |-> type, text |-> ws]
LBrace == Tok("punct", <<"{">>)
RBrace == Tok("punct", <<"}">>)
LBrack == Tok("punct", <<"[">>)
RBrack == Tok("punct", <<"]">>)
Colon  == Tok("punct", <<":">>)
Comma  == Tok("punct", <<",">>)

NoMembers == [k \in {} |-> 0]

PyVal(kind, ws, members, items) ==
    [kind |-> kind, text |-> ws, members |-> members, items |-> items]
PyStr(ws)  == PyVal("str", ws, NoMembers, <<>>)
PyInt(ws)  == PyVal("int", ws, NoMembers, <<>>)
PyNone     == PyVal("NoneType", <<"null">>, NoMembers, <<>>)
PyBool(ws) == PyVal("bool", ws, NoMembers, <<>>)
PyList(items) == PyVal("list", <<>>, NoMembers, items)
PyDict(members) == PyVal("dict", <<>>, members, <<>>)

\* required_fields, in the order the loop visits them
required_fields == <<"topic", "entities", "summary", "timeline">>

\* the sentinel 'na'
na == PyStr(<<"na">>)

\* the literal of the except branch
all_na == PyDict([k \in {<<f>> : f \in Range(required_fields)} |-> na])

\* ---- json.loads, a recursive descent over the tokens ----
JsonFail == [ok |-> FALSE, value |-> PyNone, rest |-> <<>>]
JsonOk(v, rest) == [ok |-> TRUE, value |-> v, rest |-> rest]

RECURSIVE json_value(_)
RECURSIVE json_members(_, _)
RECURSIVE json_items(_, _)

json_value(toks) ==
    IF toks = <<>> THEN JsonFail
    ELSE LET t == Head(toks)
             r == Tail(toks)
         IN  CASE t.type = "string" -> JsonOk(PyStr(t.text), r)
               [] t.type = "number" -> JsonOk(PyInt(t.text), r)
               [] t.type = "literal" ->
                    IF t.text = <<"null">> THEN JsonOk(PyNone, r)
                    ELSE JsonOk(PyBool(t.text), r)
               [] t = LBrace ->
                    IF r # <<>> /\ Head(r) = RBrace
                    THEN JsonOk(PyDict(NoMembers), Tail(r))
                    ELSE json_members(r, NoMembers)
               [] t = LBrack ->
                    IF r # <<>> /\ Head(r) = RBrack
                    THEN JsonOk(PyList(<<>>), Tail(r))
                    ELSE json_items(r, <<>>)
               [] OTHER -> JsonFail

\* members of an object after "{" or ","; a repeated key keeps the last value
json_members(toks, acc) ==
    IF Len(toks) < 2 THEN JsonFail
    ELSE IF toks[1].type # "string" \/ toks[2] # Colon THEN JsonFail
    ELSE LET key == toks[1].text
             v == json_value(SubSeq(toks, 3, Len(toks)))
             acc2 == [k \in DOMAIN acc \cup {key} |->
                         IF k = key THEN v.value ELSE acc[k]]
         IN  IF ~v.ok \/ v.rest = <<>> THEN JsonFail
             ELSE IF Head(v.rest) = RBrace
                  THEN JsonOk(PyDict(acc2), Tail(v.rest))
             ELSE IF Head(v.rest) = Comma
                  THEN json_members(Tail(v.rest), acc2)
             ELSE JsonFail

\* elements of an array after "[" or ","
json_items(toks, acc) ==
    LET v == json_value(toks)
    IN  IF ~v.ok \/ v.rest = <<>> THEN JsonFail
        ELSE IF Head(v.rest) = RBrack
             THEN JsonOk(PyList(Append(acc, v.value)), Tail(v.rest))
        ELSE IF Head(v.rest) = Comma
             THEN json_items(Tail(v.rest), Append(acc, v.value))
        ELSE JsonFail

\* json.loads(text): ok = FALSE stands for json.JSONDecodeError
json_loads(toks) ==
    LET r == json_value(toks)
    IN  IF r.ok /\ r.rest = <<>> THEN [ok |-> TRUE, value |-> r.value]
        ELSE [ok |-> FALSE, value |-> PyNone]

\* `field in data`: key membership for a dict, element equality for a list,
\* substring for a str, TypeError for anything else
py_contains(data, field) ==
    CASE data.kind = "dict" ->
            IF <<field>> \in DOMAIN data.members THEN "True" ELSE "False"
      [] data.kind = "list" ->
            IF \E i \in 1..Len(data.items) : data.items[i] = PyStr(<<field>>)
            THEN "True" ELSE "False"
      [] data.kind = "str" ->
            IF field \in Range(data.text) THEN "True" ELSE "False"
      [] OTHER -> "TypeError"

\* `data[field] = 'na'` on a dict
py_setitem(data, field, v) ==
    PyDict([k \in DOMAIN data.members \cup {<<field>>} |->
               IF k = <<field>> THEN v ELSE data.members[k]])

\* One iteration of `for field in required_fields`, on the state
\* [data, printed, raised]
parse_field_overwrite(st, field) ==
    IF st.raised # "none" THEN st
    ELSE IF st.data.kind # "dict" THEN [st EXCEPT !.raised = "TypeError"]
    ELSE [st EXCEPT !.data = py_setitem(st.data, field, na)]

parse_field(st, field) ==
    IF st.raised # "none" THEN st
    ELSE LET c == py_contains(st.data, field)
         IN  IF c = "TypeError" THEN [st EXCEPT !.raised = "TypeError"]
             ELSE IF c = "True" THEN st
             ELSE IF st.data.kind = "dict"
                  THEN [st EXCEPT !.printed = Append(@, field),
                                  !.data = py_setitem(st.data, field, na)]
             ELSE [st EXCEPT !.printed = Append(@, field),
                             !.raised = "TypeError"]

RECURSIVE parse_loop(_, _)
parse_loop(st, fields) ==
    IF fields = <<>> THEN st
    ELSE parse_loop(parse_field(st, Head(fields)), Tail(fields))

\* the except json.JSONDecodeError branch
parse_except_empty == [data |-> PyDict(NoMembers), printed |-> <<>>, raised |-> "none"]

parse_except == [data |-> all_na, printed |-> <<>>, raised |-> "none"]

\* SummaryParser.parse(text): raised = "none" means data was returned
parse(toks) ==
    LET r == json_loads(toks)
    IN  IF r.ok
        THEN parse_loop([data |-> r.value, printed |-> <<>>, raised |-> "none"],
                        required_fields)
        ELSE parse_except

\* ---- the texts the validator is applied to ----
X == PyStr(<<"X">>)
One == PyInt(<<"1">>)

\* values a required key may carry: a string, a number, null
FieldValues == {X, One, PyNone}

\* an object may also carry one key that is not required
OtherKey == <<"note">>
OtherValues == {PyList(<<X>>)}

RequiredKeys == {<<f>> : f \in Range(required_fields)}

Dicts ==
    { PyDict(m) : m \in UNION { [K -> FieldValues] : K \in SUBSET RequiredKeys } }
    \cup
    { PyDict([k \in DOMAIN m \cup {OtherKey} |->
                 IF k = OtherKey THEN o ELSE m[k]]) :
        m \in UNION { [K -> {X}] : K \in SUBSET RequiredKeys },
        o \in OtherValues }

NonDicts ==
    { PyNone, PyBool(<<"true">>), One, X,
      PyStr(<<"topic">>),
      PyStr(<<"topic", "entities", "summary", "timeline">>),
      PyList(<<>>), PyList(<<X>>),
      PyList(<<PyStr(<<"topic">>), One>>),
      PyList(<<PyStr(<<"topic">>), PyStr(<<"entities">>),
               PyStr(<<"summary">>), PyStr(<<"timeline">>)>>) }

\* the order in which an object's keys are written
KeyOrder == <<<<"topic">>, <<"entities">>, <<"summary">>, <<"timeline">>, OtherKey>>

RECURSIVE json_dumps(_)
RECURSIVE dumps_members(_, _, _)
RECURSIVE dumps_items(_, _)

json_dumps(v) ==
    CASE v.kind = "str" -> <<Tok("string", v.text)>>
      [] v.kind = "int" -> <<Tok("number", v.text)>>
      [] v.kind \in {"NoneType", "bool"} -> <<Tok("literal", v.text)>>
      [] v.kind = "list" -> <<LBrack>> \o dumps_items(v.items, TRUE) \o <<RBrack>>
      [] v.kind = "dict" -> <<LBrace>> \o dumps_members(v.members, KeyOrder, TRUE) \o <<RBrace>>

dumps_members(m, keys, first) ==
    IF keys = <<>> THEN <<>>
    ELSE IF Head(keys) \notin DOMAIN m THEN dumps_members(m, Tail(keys), first)
    ELSE (IF first THEN <<>> ELSE <<Comma>>)
         \o <<Tok("string", Head(keys)), Colon>> \o json_dumps(m[Head(keys)])
         \o dumps_members(m, Tail(keys), FALSE)

dumps_items(items, first) ==
    IF items = <<>> THEN <<>>
    ELSE (IF first THEN <<>> ELSE <<Comma>>)
         \o json_dumps(Head(items)) \o dumps_items(Tail(items), FALSE)

DictTexts == {json_dumps(v) : v \in Dicts}
NonDictTexts == {json_dumps(v) : v \in NonDicts}

\* a well-formed text cut short after any number of tokens (possibly none)
TruncatedTexts ==
    UNION {{SubSeq(t, 1, n) : n \in 0..(Len(t) - 1)} : t \in DictTexts \cup NonDictTexts}

Sorry == Tok("word", <<"Sorry">>)

\* plain prose, prose around an object, a key repeated, a missing comma
ProseTexts ==
    { <<Sorry>>, <<Sorry, Sorry>>, <<Sorry, LBrace, RBrace>>,
      <<LBrace, RBrace, Sorry>>,
      <<LBrace, Tok("string", <<"topic">>), Colon, Sorry, RBrace>>,
      <<LBrace, Tok("string", <<"topic">>), RBrace>>,
      <<LBrack, Comma, RBrack>>,
      <<RBrace>> }

MalformedTexts == TruncatedTexts \cup ProseTexts

Texts == DictTexts \cup NonDictTexts \cup MalformedTexts

NoResult == [data |-> PyNone, printed |-> <<>>, raised |-> "none"]

ParseIdle ==
    /\ text = <<>>
    /\ parsed = NoResult
    /\ sp_pc = "idle"

InitParse_sp ==
    /\ text \in Texts
    /\ parsed = NoResult
    /\ sp_pc = "start"

Parse ==
    /\ sp_pc = "start"
    /\ parsed' = parse(text)
    /\ sp_pc' = "done"
    /\ UNCHANGED text
    /\ UNCHANGED <<dd_vars, pl_vars, ap_vars>>

NextParse == Parse

(***************************************************************************)
(* Pipeline orchestrator: NewsSummaryPipeline.run_pipeline                 *)
(***************************************************************************)
\* what crawl_cnn.get_cnn_news_with_content may return: a finite list of
\* article records, possibly empty
FetchedArticles ==
    {a \in Articles :
        /\ a.url = "u1"
        /\ a.title \in {<<>>, Pad(TitleKeyLen), Pad(TitleKeyLen) \o <<"b">>}}

get_cnn_news_with_content == SeqUpTo(FetchedArticles, MaxFetched)

\* what the model may answer when the invocation succeeds
AllFour == [k \in RequiredKeys |-> X]

ResponseTexts ==
    { json_dumps(PyDict(AllFour)),
      json_dumps(PyDict([k \in RequiredKeys \ {<<"entities">>} |-> X])),
      json_dumps(PyDict([k \in RequiredKeys |-> IF k = <<"timeline">> THEN One ELSE X])),
      json_dumps(PyDict(NoMembers)),
      json_dumps(PyNone),
      json_dumps(PyList(<<>>)),
      json_dumps(PyList(<<PyStr(<<"topic">>), PyStr(<<"entities">>),
                          PyStr(<<"summary">>), PyStr(<<"timeline">>)>>)),
      SubSeq(json_dumps(PyDict(AllFour)), 1, 4),
      <<Sorry>>,
      <<>> }

\* print(f"{field} is not in result")
Diagnostic(field) ==
    CASE field = "topic" -> "topic is not in result"
      [] field = "entities" -> "entities is not in result"
      [] field = "summary" -> "summary is not in result"
      [] field = "timeline" -> "timeline is not in result"

Diagnostics(fields) == [i \in 1..Len(fields) |-> Diagnostic(fields[i])]

\* processed_data[field] in generate_html
py_getitem(data, field) ==
    IF data.kind = "dict"
    THEN IF <<field>> \in DOMAIN data.members
         THEN [raised |-> "none", value |-> data.members[<<field>>]]
         ELSE [raised |-> "KeyError", value |-> PyNone]
    ELSE [raised |-> "TypeError", value |-> PyNone]

\* the keyword arguments of template.render, in the order they are evaluated
render_fields == <<"topic", "summary", "entities", "timeline">>

\* template.render(...): the first subscript that raises ends the call
render(data, articles) ==
    LET bad == {i \in 1..Len(render_fields) :
                   py_getitem(data, render_fields[i]).raised # "none"}
    IN  IF bad # {}
        THEN [raised |-> py_getitem(data,
                  render_fields[CHOOSE i \in bad : \A j \in bad : i <= j]).raised,
              html |-> <<>>]
        ELSE [raised |-> "none",
              html |-> <<[topic |-> py_getitem(data, "topic").value,
                          summary |-> py_getitem(data, "summary").value,
                          entities |-> py_getitem(data, "entities").value,
                          timeline |-> py_getitem(data, "timeline").value,
                          news_articles |-> articles]>>]

PipelineIdle ==
    /\ pc = "idle"
    /\ news_data = <<>>
    /\ unique = <<>>
    /\ llm_calls = 0
    /\ llm_failed = FALSE
    /\ processed_data = PyNone
    /\ html_content = <<>>
    /\ reports = <<>>
    /\ stages = <<>>
    /\ output_file = <<>>
    /\ exception = "none"

InitPipeline_pl ==
    /\ pc = "fetch"
    /\ news_data = <<>>
    /\ unique = <<>>
    /\ llm_calls = 0
    /\ llm_failed = FALSE
    /\ processed_data = PyNone
    /\ html_content = <<>>
    /\ reports = <<>>
    /\ stages = <<>>
    /\ output_file = <<>>
    /\ exception = "none"

\* run_pipeline up to and including fetch_news_data
FetchNewsData ==
    /\ pc = "fetch"
    /\ \E cnn_news \in get_cnn_news_with_content :
          news_data' = cnn_news
    /\ reports' = reports \o <<"processing topic", "fetching news",
                               "fetching from CNN", "fetched from CNN">>
    /\ stages' = Append(stages, "fetch")
    /\ pc' = "dedupe"
    /\ UNCHANGED <<unique, llm_calls, llm_failed, processed_data,
                   html_content, output_file, exception>>
    /\ UNCHANGED <<dd_vars, sp_vars, ap_vars>>

\* unique_news = self.deduplicate_news(news_data)
DeduplicateNews ==
    /\ pc = "dedupe"
    /\ unique' = deduplicate_news(news_data)
    /\ reports' = Append(reports, "deduplicating")
    /\ stages' = Append(stages, "dedupe")
    /\ pc' = "extract"
    /\ UNCHANGED <<news_data, llm_calls, llm_failed, processed_data,
                   html_content, output_file, exception>>
    /\ UNCHANGED <<dd_vars, sp_vars, ap_vars>>

\* llm_chain.invoke raises before the parser is reached: the except branch
\* prints and the function returns None
InvokeFails(calls) ==
    /\ llm_calls' = llm_calls + calls
    /\ llm_failed' = TRUE
    /\ processed_data' = PyNone
    /\ reports' = reports \o <<"summarising", "Error">>
    /\ stages' = Append(stages, "extract")

\* the model answers t and the chain hands it to SummaryParser.parse; a
\* TypeError raised by parse is caught by the same except branch
InvokeAnswers(t) ==
    LET r == parse(t)
    IN  /\ llm_calls' = llm_calls + 1
        /\ llm_failed' = FALSE
        /\ processed_data' = IF r.raised = "none" THEN r.data ELSE PyNone
        /\ reports' = reports \o <<"summarising">> \o Diagnostics(r.printed)
                         \o (IF r.raised = "none" THEN <<>> ELSE <<"Error">>)
        /\ stages' = stages \o <<"extract", "validate">>

extract_retrying ==
    \/ InvokeFails(2)
    \/ \E t \in ResponseTexts : InvokeAnswers(t)

extract_entities_and_summary ==
    \/ InvokeFails(1)
    \/ \E t \in ResponseTexts : InvokeAnswers(t)

ExtractEntitiesAndSummary ==
    /\ pc = "extract"
    /\ extract_entities_and_summary
    /\ pc' = "render"
    /\ UNCHANGED <<news_data, unique, html_content, output_file, exception>>
    /\ UNCHANGED <<dd_vars, sp_vars, ap_vars>>

\* html_content = self.generate_html(processed_data, unique_news)
GenerateHtml ==
    /\ pc = "render"
    /\ reports' = Append(reports, "generating HTML")
    /\ stages' = Append(stages, "render")
    /\ \E template_ok \in BOOLEAN :
          IF ~template_ok
          THEN /\ exception' = "OSError"
               /\ pc' = "raised"
               /\ UNCHANGED html_content
          ELSE LET r == render(processed_data, unique)
               IN  IF r.raised # "none"
                   THEN /\ exception' = r.raised
                        /\ pc' = "raised"
                        /\ UNCHANGED html_content
                   ELSE /\ html_content' = r.html
                        /\ pc' = "persist"
                        /\ UNCHANGED exception
    /\ UNCHANGED <<news_data, unique, llm_calls, llm_failed, processed_data,
                   output_file>>
    /\ UNCHANGED <<dd_vars, sp_vars, ap_vars>>

\* with open(output_file, 'w') ...: f.write(html_content); return
WriteOutput ==
    /\ pc = "persist"
    /\ stages' = Append(stages, "persist")
    /\ \E open_ok \in BOOLEAN :
          IF open_ok
          THEN /\ output_file' = html_content
               /\ reports' = Append(reports, "done")
               /\ pc' = "done"
               /\ UNCHANGED exception
          ELSE /\ exception' = "OSError"
               /\ pc' = "raised"
               /\ UNCHANGED <<output_file, reports>>
    /\ UNCHANGED <<news_data, unique, llm_calls, llm_failed, processed_data,
                   html_content>>
    /\ UNCHANGED <<dd_vars, sp_vars, ap_vars>>

NextPipeline ==
    \/ FetchNewsData
    \/ DeduplicateNews
    \/ ExtractEntitiesAndSummary
    \/ GenerateHtml
    \/ WriteOutput

(***************************************************************************)
(* AP News fetcher: get_ap_news_with_content                               *)
(***************************************************************************)
\* max_articles_count = 20
max_articles_count == 20

\* a div.PagePromo-title of the search page: whether it holds an <a>,
\* whether that <a> has an href, and the title and link it gives
Cards ==
    { [a_tag |-> FALSE, href |-> FALSE, title |-> <<>>, url |-> "u1"],
      [a_tag |-> TRUE, href |-> FALSE, title |-> <<"b">>, url |-> "u1"],
      [a_tag |-> TRUE, href |-> TRUE, title |-> <<"b">>, url |-> "u1"],
      [a_tag |-> TRUE, href |-> TRUE, title |-> <<"c">>, url |-> "u2"] }

\* the loop over the cards: stops at max_articles, skips a card without an
\* <a>, raises KeyError at a_tag['href'] when the <a> has no href
RECURSIVE scan_cards(_, _, _)
scan_cards(cs, acc, limit) ==
    IF cs = <<>> \/ Len(acc) >= limit THEN [raised |-> "none", news_list |-> acc]
    ELSE IF ~Head(cs).a_tag THEN scan_cards(Tail(cs), acc, limit)
    ELSE IF ~Head(cs).href THEN [raised |-> "KeyError", news_list |-> acc]
    ELSE scan_cards(Tail(cs),
                    Append(acc, [title |-> Head(cs).title, url |-> Head(cs).url]),
                    limit)

\* get_ap_article_content(url): every exception is caught and gives the
\* empty article
get_ap_article_content(outcome) ==
    CASE outcome = "body" -> [content |-> "body", publish_date |-> "2024-01-01"]
      [] outcome = "body_no_date" -> [content |-> "body", publish_date |-> ""]
      [] outcome = "no_body" -> [content |-> "", publish_date |-> "2024-01-01"]
      [] outcome \in {"request_error", "bad_date"} ->
            [content |-> "", publish_date |-> ""]

ArticleOutcomes == {"body", "body_no_date", "no_body", "request_error", "bad_date"}

CrawlIdle ==
    /\ ap_pc = "idle"
    /\ max_articles = max_articles_count
    /\ cards = <<>>
    /\ ap_news = <<>>
    /\ ap_i = 1
    /\ detailed = <<>>
    /\ ap_result = <<>>
    /\ ap_exception = "none"
    /\ driver_quit = FALSE

InitCrawl_ap ==
    /\ ap_pc = "list"
    /\ max_articles \in {1, max_articles_count}
    /\ cards \in SeqUpTo(Cards, MaxCards)
    /\ ap_news = <<>>
    /\ ap_i = 1
    /\ detailed = <<>>
    /\ ap_result = <<>>
    /\ ap_exception = "none"
    /\ driver_quit = FALSE

\* news_list = get_ap_news_list_selenium(topic, max_articles) and the check
\* for an empty list; an exception of the call is not caught
GetApNewsListSelenium ==
    /\ ap_pc = "list"
    /\ \E outcome \in {"driver_error", "load_error", "loaded"} :
          CASE outcome = "driver_error" ->
                  /\ ap_exception' = "WebDriverException"
                  /\ ap_pc' = "raised"
                  /\ UNCHANGED <<ap_news, ap_result, driver_quit>>
            [] outcome = "load_error" ->
                  /\ ap_exception' = "WebDriverException"
                  /\ ap_pc' = "raised"
                  /\ driver_quit' = TRUE
                  /\ UNCHANGED <<ap_news, ap_result>>
            [] outcome = "loaded" ->
                  LET r == scan_cards(cards, <<>>, max_articles)
                  IN  /\ driver_quit' = TRUE
                      /\ IF r.raised # "none"
                         THEN /\ ap_exception' = r.raised
                              /\ ap_pc' = "raised"
                              /\ UNCHANGED <<ap_news, ap_result>>
                         ELSE /\ ap_news' = r.news_list
                              /\ ap_pc' = IF r.news_list = <<>> THEN "returned"
                                          ELSE "articles"
                              /\ UNCHANGED <<ap_exception, ap_result>>
    /\ UNCHANGED <<max_articles, cards, ap_i, detailed>>
    /\ UNCHANGED <<dd_vars, sp_vars, pl_vars>>

\* one iteration of `for i, news in enumerate(news_list, 1)`
FetchArticle ==
    /\ ap_pc = "articles"
    /\ ap_i <= Len(ap_news)
    /\ \E outcome \in ArticleOutcomes :
          LET article == get_ap_article_content(outcome)
              news == ap_news[ap_i]
          IN  detailed' =
                 IF article.content # ""
                 THEN Append(detailed,
                             [title |-> news.title, url |-> news.url,
                              content |-> article.content,
                              publish_date |-> article.publish_date,
                              source |-> "AP News"])
                 ELSE detailed
    /\ ap_i' = ap_i + 1
    /\ UNCHANGED <<ap_pc, max_articles, cards, ap_news, ap_result,
                   ap_exception, driver_quit>>
    /\ UNCHANGED <<dd_vars, sp_vars, pl_vars>>

\* return detailed
ReturnDetailed ==
    /\ ap_pc = "articles"
    /\ ap_i > Len(ap_news)
    /\ ap_result' = detailed
    /\ ap_pc' = "returned"
    /\ UNCHANGED <<max_articles, cards, ap_news, ap_i, detailed,
                   ap_exception, driver_quit>>
    /\ UNCHANGED <<dd_vars, sp_vars, pl_vars>>

NextCrawl == GetApNewsListSelenium \/ FetchArticle \/ ReturnDetailed

(***************************************************************************)
(* Specifications                                                          *)
(***************************************************************************)
InitDedup == InitDedup_dd /\ ParseIdle /\ PipelineIdle /\ CrawlIdle
SpecDedup == InitDedup /\ [][NextDedup]_vars

InitParse == DedupIdle /\ InitParse_sp /\ PipelineIdle /\ CrawlIdle
SpecParse == InitParse /\ [][NextParse]_vars

Init == DedupIdle /\ ParseIdle /\ InitPipeline_pl /\ CrawlIdle
Next == NextPipeline
Spec == Init /\ [][Next]_vars

InitCrawl == DedupIdle /\ ParseIdle /\ PipelineIdle /\ InitCrawl_ap
SpecCrawl == InitCrawl /\ [][NextCrawl]_vars

(***************************************************************************)
(* Properties of the deduplicator (SpecDedup)                              *)
(***************************************************************************)
\* the dedup key as the specification states it: the first 50 characters of
\* the title, or the whole title when it is shorter
DedupKey(a) ==
    IF Len(a.title) <= TitleKeyLen THEN a.title
    ELSE [i \in 1..TitleKeyLen |-> a.title[i]]

RECURSIVE IsSubsequence(_, _)
IsSubsequence(s, t) ==
    IF s = <<>> THEN TRUE
    ELSE IF t = <<>> THEN FALSE
    ELSE IF Head(s) = Head(t) THEN IsSubsequence(Tail(s), Tail(t))
    ELSE IsSubsequence(s, Tail(t))

\* positions of the input that hold the first article of their key
FirstPositions(l) ==
    {j \in 1..Len(l) : \A h \in 1..(j - 1) : DedupKey(l[h]) # DedupKey(l[j])}

\* the i-th smallest element of a set of positions
NthPosition(P, i) == CHOOSE j \in P : Cardinality({h \in P : h <= j}) = i

Deduped == dd_pc \in {"deduped", "again"}

\* C1: deduplicate_news returns a subsequence of its input, no longer than
\* the input, holding exactly one article per dedup key of the input, and
\* that article is the first of the input with that key, in input order.
C1_DedupFirstPerKey ==
    Deduped =>
        /\ IsSubsequence(unique_news, news_list)
        /\ Len(unique_news) <= Len(news_list)
        /\ \A i, j \in 1..Len(unique_news) :
              i # j => DedupKey(unique_news[i]) # DedupKey(unique_news[j])
        /\ {DedupKey(a) : a \in Range(unique_news)}
              = {DedupKey(a) : a \in Range(news_list)}
        /\ Len(unique_news) = Cardinality(FirstPositions(news_list))
        /\ \A i \in 1..Len(unique_news) :
              unique_news[i] = news_list[NthPosition(FirstPositions(news_list), i)]

\* two articles whose titles differ only beyond the 50th character collapse
\* to the first, and an article with another key is kept after it
C1_Witness ==
    /\ dd_pc = "deduped"
    /\ Len(news_list) = 3
    /\ Len(news_list[1].title) = TitleKeyLen
    /\ Len(news_list[2].title) = TitleKeyLen + 1
    /\ DedupKey(news_list[1]) = DedupKey(news_list[2])
    /\ DedupKey(news_list[3]) # DedupKey(news_list[1])
    /\ unique_news = <<news_list[1], news_list[3]>>

\* C2: deduplicating an already deduplicated list changes nothing.
C2_DedupIdempotent ==
    dd_pc = "again" => unique_again = unique_news

C2_Witness ==
    /\ dd_pc = "again"
    /\ Len(unique_news) < Len(news_list)
    /\ Len(unique_news) >= 2
    /\ unique_again = unique_news

(***************************************************************************)
(* Properties of the validator (SpecParse)                                 *)
(***************************************************************************)
IsStructuredSummary(v) ==
    /\ v.kind = "dict"
    /\ DOMAIN v.members = {<<"topic">>, <<"entities">>, <<"summary">>, <<"timeline">>}
    /\ \A k \in DOMAIN v.members : v.members[k].kind = "str"

\* C3: for every text, parse returns a record with exactly the four fields
\* topic, entities, summary, timeline, each a string, and raises nothing.
C3_ValidatorTotal ==
    sp_pc = "done" =>
        /\ parsed.raised = "none"
        /\ IsStructuredSummary(parsed.data)

\* C4: when the text encodes an object, each required key that the object
\* lacks is reported and set to "na", every key the object has keeps its
\* value whatever its type, and an object with all four keys is returned
\* as given.
C4_ParseSuccess ==
    sp_pc = "done" =>
        \A v \in Dicts :
            text = json_dumps(v) =>
                /\ parsed.raised = "none"
                /\ parsed.data.kind = "dict"
                /\ DOMAIN parsed.data.members
                      = DOMAIN v.members \cup {<<"topic">>, <<"entities">>,
                                               <<"summary">>, <<"timeline">>}
                /\ \A k \in DOMAIN v.members :
                      parsed.data.members[k] = v.members[k]
                /\ \A f \in {"topic", "entities", "summary", "timeline"} :
                      IF <<f>> \in DOMAIN v.members
                      THEN f \notin Range(parsed.printed)
                      ELSE /\ parsed.data.members[<<f>>] = PyStr(<<"na">>)
                           /\ f \in Range(parsed.printed)
                /\ ({<<"topic">>, <<"entities">>, <<"summary">>, <<"timeline">>}
                       \subseteq DOMAIN v.members => parsed.data = v)

\* an object without entities and with a number as timeline
C4_Witness ==
    /\ sp_pc = "done"
    /\ text = json_dumps(PyDict(
                 [k \in {<<"topic">>, <<"summary">>, <<"timeline">>} |->
                     IF k = <<"timeline">> THEN One ELSE X]))
    /\ parsed.raised = "none"
    /\ parsed.data.members[<<"entities">>] = PyStr(<<"na">>)
    /\ parsed.data.members[<<"timeline">>] = One
    /\ parsed.printed = <<"entities">>

Entered(stage) == stage \in Range(stages)

\* C6: when the fetch yields no article the run stops there: the model is
\* not invoked, nothing is rendered, nothing is written, and "no articles
\* found" is reported.
C6_EmptyFetchStopsRun ==
    (pc # "fetch" /\ news_data = <<>>) =>
        /\ llm_calls = 0
        /\ ~Entered("extract")
        /\ ~Entered("render")
        /\ output_file = <<>>
        /\ (pc \in {"done", "raised"} => "no articles found" \in Range(reports))

\* C7: when the model invocation fails the failure is reported, the model is
\* not called again, the renderer is not entered and no file is written.
C7_InvocationFailureStopsRun ==
    llm_failed =>
        /\ "Error" \in Range(reports)
        /\ llm_calls = 1
        /\ ~Entered("render")
        /\ output_file = <<>>

\* C8: whenever the renderer is entered, the record handed to it has the
\* four fields topic, entities, summary and timeline.
C8_RendererGetsFourFields ==
    Entered("render") =>
        /\ processed_data.kind = "dict"
        /\ {<<"topic">>, <<"entities">>, <<"summary">>, <<"timeline">>}
              \subseteq DOMAIN processed_data.members

StageRank(stage) ==
    CASE stage = "fetch" -> 1
      [] stage = "dedupe" -> 2
      [] stage = "extract" -> 3
      [] stage = "validate" -> 4
      [] stage = "render" -> 5
      [] stage = "persist" -> 6

\* C9: the stages of a run are entered in the order fetch, dedupe, extract,
\* validate, render, persist, each at most once; the model is invoked once
\* exactly when extraction is entered; the output file is written only by
\* the persist step of a run that rendered, and holds the rendered document.
C9_LinearSinglePass ==
    /\ \A i, j \in 1..Len(stages) :
          i < j => StageRank(stages[i]) < StageRank(stages[j])
    /\ llm_calls = (IF Entered("extract") THEN 1 ELSE 0)
    /\ (Entered("validate") => Entered("extract"))
    /\ (output_file # <<>> =>
           /\ pc = "done"
           /\ Entered("render")
           /\ stages[Len(stages)] = "persist"
           /\ html_content # <<>>
           /\ output_file = html_content)
    /\ (pc # "done" => output_file = <<>>)

C9_Witness ==
    /\ pc = "done"
    /\ stages = <<"fetch", "dedupe", "extract", "validate", "render", "persist">>
    /\ llm_calls = 1
    /\ output_file # <<>>
    /\ Len(unique) < Len(news_data)

(***************************************************************************)
(* Properties of the AP News fetcher (SpecCrawl)                           *)
(***************************************************************************)
\* C10: get_ap_news_with_content never lets an exception out: whatever
\* fails, it returns a list.
C10_FetcherNeverRaises ==
    /\ ap_pc # "raised"
    /\ ap_exception = "none"

====
